---- MODULE Spec2Model ----
(***************************************************************************)
(* A model of autograder/grade.py: the participant-identifier validator,   *)
(* the deadline clock (parse_deadline, days_late), the late-penalty policy *)
(* (apply_late_policy) and the grading run (main) with its collaborators   *)
(* (git, pytest, the results artifact, the event payload, the gradebook).  *)
(*                                                                         *)
(* Representation of Python values:                                        *)
(*   None              the record [none |-> TRUE]                          *)
(*   str (identifier)  a sequence of one-character strings                 *)
(*   datetime in TZ    [wall |-> seconds on the America/Chicago wall clock *)
(*                      since 2026-01-01 00:00:00, utcoff |-> hours]       *)
(*   a path            the sequence of its "/"-separated segments          *)
(*   a date-time text  its numeric fields (a tuple or a record)            *)
(***************************************************************************)
EXTENDS Integers, Sequences, FiniteSets, TLC

VARIABLES
  \* one grading run after another (main)
  pc,              \* where the run stands
  changed,         \* the changed paths git reported
  student_id,      \* the participant folder, once identified
  labs_touched,    \* the graded units touched
  out,             \* what the run has printed, in order
  exit_code,       \* the argument of sys.exit (0 on a plain return)
  pytest_invoked,  \* whether this run has run the check suite
  returncode,      \* the check suite's status
  policy_applied,  \* whether this run has called apply_late_policy
  scores,          \* earned, max_points, final_score, submitted_at
  gradebook,       \* the gradebook file: None when absent, else its rows
  gradebook0,      \* the gradebook file as the run found it
  runs,            \* the number of runs started
  \* the functions on their own
  dl,              \* a call of days_late
  lp,              \* a call of apply_late_policy
  idc              \* a call of is_valid_student_id

mainvars == <<pc, changed, student_id, labs_touched, out, exit_code,
              pytest_invoked, returncode, policy_applied, scores, gradebook,
              gradebook0, runs>>

vars == <<mainvars, dl, lp, idc>>

None == [none |-> TRUE]

Max(a, b) == IF a >= b THEN a ELSE b

(***************************************************************************)
(* Bounds of the model.                                                    *)
(***************************************************************************)
\* submissions are sampled up to this many days after a deadline
MaxLateDays == 8
\* at most this many graded units are touched in one call of the policy
MaxTouched == 2

(***************************************************************************)
(* Configuration tables.                                                   *)
(***************************************************************************)
ALLOWED_LABS == {"lab00.py", "lab01.py", "lab02.py", "lab03.py",
                 "lab04.py", "lab05.py", "lab06.py", "lab07.py"}

\* "YYYY-MM-DD HH:MM" texts, as <<year, month, day, hour, minute>>
LAB_DEADLINES ==
  [lab \in ALLOWED_LABS |->
     CASE lab = "lab00.py" -> <<2026, 2, 26, 23, 59>>
       [] lab = "lab01.py" -> <<2026, 3, 7, 23, 59>>
       [] lab = "lab02.py" -> <<2026, 3, 14, 23, 59>>
       [] lab = "lab03.py" -> <<2026, 3, 21, 23, 59>>
       [] lab = "lab04.py" -> <<2026, 3, 28, 23, 59>>
       [] lab = "lab05.py" -> <<2026, 4, 4, 23, 59>>
       [] lab = "lab06.py" -> <<2026, 4, 11, 23, 59>>
       [] lab = "lab07.py" -> <<2026, 4, 18, 23, 59>>]

LAB_MAX_POINTS == 20

\* the allowed lab names in the order Python's sorted() gives them
LabOrder == <<"lab00.py", "lab01.py", "lab02.py", "lab03.py",
              "lab04.py", "lab05.py", "lab06.py", "lab07.py">>

\* sorted(labs) for a set of lab names
sorted_labs(labs) == SelectSeq(LabOrder, LAMBDA l : l \in labs)

(***************************************************************************)
(* Civil time. Instants are counted in seconds from 2026-01-01 00:00:00,   *)
(* on the UTC scale (an int) or on the Chicago wall clock (the wall field  *)
(* of a datetime). The zone rules are those of the year 2026.              *)
(***************************************************************************)
SecondsPerDay == 86400

SecondsPerHour == 3600

\* days from 1970-01-01 to the civil date y-m-d (proleptic Gregorian)
DaysFromCivil(y, m, d) ==
  LET yy  == IF m <= 2 THEN y - 1 ELSE y
      era == yy \div 400
      yoe == yy - era * 400
      mp  == (m + 9) % 12
      doy == (153 * mp + 2) \div 5 + d - 1
      doe == yoe * 365 + yoe \div 4 - yoe \div 100 + doy
  IN  era * 146097 + doe - 719468

\* seconds from 2026-01-01 00:00:00 to the civil date-time, on its own scale
CivilSeconds(y, m, d, hh, mi, ss) ==
  (DaysFromCivil(y, m, d) - DaysFromCivil(2026, 1, 1)) * SecondsPerDay
    + hh * SecondsPerHour + mi * 60 + ss

\* America/Chicago in 2026: CST (UTC-6) until 2026-03-08 08:00 UTC, then CDT
\* (UTC-5) until 2026-11-01 07:00 UTC, then CST again
DstStartUtc == CivilSeconds(2026, 3, 8, 8, 0, 0)

DstEndUtc == CivilSeconds(2026, 11, 1, 7, 0, 0)

\* TZ.utcoffset of a UTC instant, in hours
UtcOffsetAt(utc) == IF utc >= DstStartUtc /\ utc < DstEndUtc THEN -5 ELSE -6

\* TZ.utcoffset of a wall-clock reading (fold = 0: the earlier offset in a
\* repeated hour, the offset before the jump in a skipped hour)
UtcOffsetOfWall(wall) ==
  IF wall >= DstStartUtc - 5 * SecondsPerHour /\ wall < DstEndUtc - 5 * SecondsPerHour
  THEN -5 ELSE -6

\* t_utc.astimezone(TZ) for a UTC instant
astimezone(utc) ==
  [wall |-> utc + UtcOffsetAt(utc) * SecondsPerHour, utcoff |-> UtcOffsetAt(utc)]

\* datetime.strptime(deadline_str, "%Y-%m-%d %H:%M").replace(tzinfo=TZ)
parse_deadline(deadline_str) ==
  LET wall == CivilSeconds(deadline_str[1], deadline_str[2], deadline_str[3],
                           deadline_str[4], deadline_str[5], 0)
  IN  [wall |-> wall, utcoff |-> UtcOffsetOfWall(wall)]

\* the UTC instant of a datetime in TZ
ToUtc(t) == t.wall - t.utcoff * SecondsPerHour

(***************************************************************************)
(* days_late: the two datetimes share one tzinfo, so Python subtracts      *)
(* their wall-clock readings; delta.days is the floor of the difference in *)
(* days.                                                                   *)
(***************************************************************************)
days_late_strict(submitted_at, deadline) ==
  LET delta == submitted_at.wall - deadline.wall
  IN  IF delta < 0 THEN 0 ELSE (delta \div SecondsPerDay) + 1

days_late(submitted_at, deadline) ==
  LET delta == submitted_at.wall - deadline.wall
  IN  IF delta <= 0 THEN 0 ELSE (delta \div SecondsPerDay) + 1

(***************************************************************************)
(* apply_late_policy                                                       *)
(***************************************************************************)
\* the if / elif / else of the loop body: the deduction and the message
late_branch_no_forfeit(lab, dlate) ==
  IF dlate = 0 THEN [penalty |-> 0, message |-> <<lab, "on time">>]
  ELSE IF dlate <= 7
       THEN [penalty |-> dlate, message |-> <<lab, "day(s) late", dlate, dlate>>]
       ELSE [penalty |-> 0, message |-> <<lab, ">7 days late">>]

late_branch(lab, dlate) ==
  IF dlate = 0 THEN [penalty |-> 0, message |-> <<lab, "on time">>]
  ELSE IF dlate <= 7
       THEN [penalty |-> dlate, message |-> <<lab, "day(s) late", dlate, dlate>>]
       ELSE [penalty |-> LAB_MAX_POINTS, message |-> <<lab, ">7 days late">>]

\* for lab in sorted(labs_touched): ...
RECURSIVE late_loop(_, _, _, _)
late_loop(labs, submitted_at, deduction, messages) ==
  IF labs = <<>> THEN [deduction |-> deduction, messages |-> messages]
  ELSE LET lab      == Head(labs)
           deadline == parse_deadline(LAB_DEADLINES[lab])
           dlate    == days_late(submitted_at, deadline)
           b        == late_branch(lab, dlate)
       IN  late_loop(Tail(labs), submitted_at, deduction + b.penalty,
                     Append(messages, b.message))

apply_late_policy_unclamped(earned, touched, submitted_at) ==
  IF submitted_at = None
  THEN [final_score |-> earned, messages |-> << <<"no timestamp">> >>]
  ELSE LET r == late_loop(sorted_labs(touched), submitted_at, 0, <<>>)
       IN  [final_score |-> earned - r.deduction,
            messages |-> Append(r.messages,
                                IF r.deduction # 0
                                THEN <<"total late deduction", r.deduction>>
                                ELSE <<"no late deduction">>)]

apply_late_policy(earned, touched, submitted_at) ==
  IF submitted_at = None
  THEN [final_score |-> earned, messages |-> << <<"no timestamp">> >>]
  ELSE LET r == late_loop(sorted_labs(touched), submitted_at, 0, <<>>)
       IN  [final_score |-> Max(0, earned - r.deduction),
            messages |-> Append(r.messages,
                                IF r.deduction # 0
                                THEN <<"total late deduction", r.deduction>>
                                ELSE <<"no late deduction">>)]

(***************************************************************************)
(* Sampled inputs of the clock and the policy.                             *)
(***************************************************************************)
\* seconds around a whole number of days: just before, exactly, just after,
\* and an hour earlier (the hour the wall clock skips on 2026-03-08)
Jitter == {-SecondsPerHour - 1, -SecondsPerHour, -1, 0, 1}

\* the unit whose deadline anchors the sampled instants: the one due in the
\* night before the change to daylight time
AnchorLabs == {"lab01.py"}

\* UTC instants of submissions: around each whole day after an anchor
\* deadline, and on both sides of the return to standard time
Instants ==
  {ToUtc(parse_deadline(LAB_DEADLINES[l])) + k * SecondsPerDay + j :
     l \in AnchorLabs, k \in 0..MaxLateDays, j \in Jitter}
  \cup {DstEndUtc - 1, DstEndUtc, DstEndUtc + SecondsPerHour - 1}

EarnedValues == {5, 18, 40}

TouchedSets == {L \in SUBSET ALLOWED_LABS : Cardinality(L) <= MaxTouched}

(***************************************************************************)
(* Participant identifiers. A str is a sequence of characters; the two     *)
(* characters outside ASCII are written by their Unicode names.            *)
(***************************************************************************)
ID_PREFIX == <<"P", "Y", "1", "0", "2", "0", "0", "1">>

MIN_ID == 0

MAX_ID == 44

AsciiDigits == {"0", "1", "2", "3", "4", "5", "6", "7", "8", "9"}

\* decimal digits of other scripts (category Nd): str.isdigit() holds and
\* int() reads them
OtherDecimalDigits == {"ARABIC-INDIC DIGIT THREE"}

\* digit characters that are no decimal digits (category No): str.isdigit()
\* holds and int() raises ValueError
NonDecimalDigits == {"SUPERSCRIPT TWO"}

\* the value int() gives a decimal digit
DigitValue(c) ==
  CASE c = "0" -> 0 [] c = "1" -> 1 [] c = "2" -> 2 [] c = "3" -> 3
    [] c = "4" -> 4 [] c = "5" -> 5 [] c = "6" -> 6 [] c = "7" -> 7
    [] c = "8" -> 8 [] c = "9" -> 9 [] c = "ARABIC-INDIC DIGIT THREE" -> 3

\* s.startswith(prefix)
startswith(s, prefix) ==
  Len(s) >= Len(prefix) /\ SubSeq(s, 1, Len(prefix)) = prefix

\* s[-3:]
last3(s) == SubSeq(s, Max(1, Len(s) - 2), Len(s))

\* s.isdigit()
isdigit(s) ==
  /\ Len(s) > 0
  /\ \A i \in 1..Len(s) :
       s[i] \in AsciiDigits \cup OtherDecimalDigits \cup NonDecimalDigits

\* int(s) for a nonempty s of decimal digits
RECURSIVE int(_)
int(s) ==
  IF Len(s) = 1 THEN DigitValue(s[1])
  ELSE 10 * int(SubSeq(s, 1, Len(s) - 1)) + DigitValue(s[Len(s)])

\* the outcome of is_valid_student_id: "True", "False", or "ValueError" when
\* int(suffix) raises
is_valid_student_id_no_upper(sid) ==
  IF ~startswith(sid, ID_PREFIX) THEN "False"
  ELSE IF Len(sid) # Len(ID_PREFIX) + 3 THEN "False"
  ELSE LET suffix == last3(sid)
       IN  IF ~isdigit(suffix) THEN "False"
           ELSE IF \E i \in 1..Len(suffix) : suffix[i] \in NonDecimalDigits
                THEN "ValueError"
                ELSE LET n == int(suffix)
                     IN  IF MIN_ID <= n THEN "True" ELSE "False"

is_valid_student_id_exclusive(sid) ==
  IF ~startswith(sid, ID_PREFIX) THEN "False"
  ELSE IF Len(sid) # Len(ID_PREFIX) + 3 THEN "False"
  ELSE LET suffix == last3(sid)
       IN  IF ~isdigit(suffix) THEN "False"
           ELSE IF \E i \in 1..Len(suffix) : suffix[i] \in NonDecimalDigits
                THEN "ValueError"
                ELSE LET n == int(suffix)
                     IN  IF MIN_ID <= n /\ n < MAX_ID THEN "True" ELSE "False"

is_valid_student_id(sid) ==
  IF ~startswith(sid, ID_PREFIX) THEN "False"
  ELSE IF Len(sid) # Len(ID_PREFIX) + 3 THEN "False"
  ELSE LET suffix == last3(sid)
       IN  IF ~isdigit(suffix) THEN "False"
           ELSE IF \E i \in 1..Len(suffix) : suffix[i] \in NonDecimalDigits
                THEN "ValueError"
                ELSE LET n == int(suffix)
                     IN  IF MIN_ID <= n /\ n <= MAX_ID THEN "True" ELSE "False"

(***************************************************************************)
(* Sampled identifiers: a prefix (the configured one, one of the right     *)
(* length that differs, one a character short) followed by a few           *)
(* characters.                                                             *)
(***************************************************************************)
\* the longest sampled suffix
MaxSuffixLen == 4

IdAlphabet == {"0", "1", "4", "5", "9", "a",
               "SUPERSCRIPT TWO", "ARABIC-INDIC DIGIT THREE"}

SampledPrefixes == {ID_PREFIX,
                    <<"P", "Y", "1", "0", "2", "0", "0", "2">>,
                    <<"P", "Y", "1", "0", "2", "0", "0">>}

SampledIds ==
  {p \o q : p \in SampledPrefixes,
            q \in UNION {[1..n -> IdAlphabet] : n \in 2..MaxSuffixLen}}

(***************************************************************************)
(* Text of dates and times.                                                *)
(***************************************************************************)
\* the civil date <<year, month, day>> of a count of days from 1970-01-01
CivilFromDays(days) ==
  LET z   == days + 719468
      era == z \div 146097
      doe == z - era * 146097
      yoe == (doe - doe \div 1460 + doe \div 36524 - doe \div 146096) \div 365
      doy == doe - (365 * yoe + yoe \div 4 - yoe \div 100)
      mp  == (5 * doy + 2) \div 153
      d   == doy - (153 * mp + 2) \div 5 + 1
      m   == IF mp < 10 THEN mp + 3 ELSE mp - 9
      y   == yoe + era * 400 + (IF m <= 2 THEN 1 ELSE 0)
  IN  <<y, m, d>>

\* a number in two digits
Pad2(n) == IF n < 10 THEN "0" \o ToString(n) ELSE ToString(n)

\* submitted_at.isoformat(), e.g. "2026-03-08T10:00:00-05:00"
isoformat(t) ==
  LET days == t.wall \div SecondsPerDay
      secs == t.wall % SecondsPerDay
      ymd  == CivilFromDays(days + DaysFromCivil(2026, 1, 1))
  IN  ToString(ymd[1]) \o "-" \o Pad2(ymd[2]) \o "-" \o Pad2(ymd[3]) \o "T"
        \o Pad2(secs \div SecondsPerHour) \o ":"
        \o Pad2((secs % SecondsPerHour) \div 60) \o ":" \o Pad2(secs % 60)
        \o "-" \o Pad2(-t.utcoff) \o ":00"

\* datetime.fromisoformat(updated_at.replace("Z", "+00:00")): the UTC instant
\* of a "YYYY-MM-DDTHH:MM:SSZ" text, given by its fields
fromisoformat(text) ==
  CivilSeconds(text.year, text.month, text.day,
               text.hour, text.minute, text.second)

(***************************************************************************)
(* The grading run, main(), and its collaborators.                         *)
(***************************************************************************)
\* at most this many paths in one change set
MaxChanged == 3

\* at most this many runs, one after another
MaxRuns == 2

\* d.get(key, default) for a dict given as a record
get(d, key, default) == IF key \in DOMAIN d THEN d[key] ELSE default

\* the characters of the participant folder names of the sampled paths
chars(name) ==
  CASE name = "PY102001001" -> ID_PREFIX \o <<"0", "0", "1">>
    [] name = "PY102001044" -> ID_PREFIX \o <<"0", "4", "4">>
    [] name = "PY102001045" -> ID_PREFIX \o <<"0", "4", "5">>

\* the sampled paths, in the order git lists them (by byte value)
PathOrder ==
  << <<".github", "workflows", "grade.yml">>,
     <<"README.md">>,
     <<"autograder", "grade.py">>,
     <<"submissions", "PY102001001", "lab00.py">>,
     <<"submissions", "PY102001001", "lab01.py">>,
     <<"submissions", "PY102001001", "notes.txt">>,
     <<"submissions", "PY102001044", "lab01.py">>,
     <<"submissions", "PY102001045", "lab01.py">>,
     <<"submissions", "notes.txt">> >>

\* the change sets git diff --name-only can report: each path once, sorted
ChangedLists ==
  {SelectSeq(PathOrder, LAMBDA p : \E i \in S : PathOrder[i] = p) :
     S \in {T \in SUBSET (1..Len(PathOrder)) : Cardinality(T) <= MaxChanged}}

\* statuses of the git commands and of pytest
GitStatuses == {0, 128}

PytestStatuses == {0, 1, 2}

\* the results artifact the check suite leaves: a JSON object
ResultsFiles == {[earned |-> 18, max |-> 20], [max |-> 20]}

\* "2026-03-08T15:00:00Z": 10:00 in Chicago, the day after lab01.py was due
StampA == [year |-> 2026, month |-> 3, day |-> 8,
           hour |-> 15, minute |-> 0, second |-> 0]

\* "2026-03-20T05:00:00Z": midnight in Chicago, 2026-03-20
StampB == [year |-> 2026, month |-> 3, day |-> 20,
           hour |-> 5, minute |-> 0, second |-> 0]

\* the event payload: whether GITHUB_EVENT_PATH names an existing file, and
\* the JSON document in it
Events ==
  {[path_exists |-> FALSE, data |-> [action |-> "none"]],
   [path_exists |-> TRUE, data |-> [ref |-> "refs/heads/main"]],
   [path_exists |-> TRUE,
    data |-> [pull_request |-> [updated_at |-> StampA, created_at |-> StampB]]],
   [path_exists |-> TRUE, data |-> [pull_request |-> [created_at |-> StampB]]],
   [path_exists |-> TRUE, data |-> [pull_request |-> [number |-> 7]]]}

get_pr_updated_time(event) ==
  IF ~event.path_exists THEN None
  ELSE LET pr == get(event.data, "pull_request", None)
       IN  IF pr = None THEN None
           ELSE LET first      == get(pr, "updated_at", None)
                    updated_at == IF first # None THEN first
                                  ELSE get(pr, "created_at", None)
                IN  IF updated_at = None THEN None
                    ELSE astimezone(fromisoformat(updated_at))

\* p.startswith(dir + "/") for a path given by its segments
path_startswith(p, dir) == Len(p) >= 2 /\ p[1] = dir

\* [p for p in changed if p.startswith(("autograder/", ".github/"))]
forbidden(paths) ==
  SelectSeq(paths, LAMBDA p : path_startswith(p, "autograder")
                                \/ path_startswith(p, ".github"))

\* [p for p in changed if not p.startswith("submissions/")]
outside_dirs_only(paths) ==
  SelectSeq(paths, LAMBDA p : Len(p) >= 2 /\ ~path_startswith(p, "submissions"))

outside(paths) ==
  SelectSeq(paths, LAMBDA p : ~path_startswith(p, "submissions"))

\* one turn of the loop over the changed paths: the path is refused, or its
\* folder and, if it names a lab, its file name are added
scan_step_overwrite(parts, acc) ==
  IF Len(parts) < 3 \/ parts[1] # "submissions"
  THEN [acc EXCEPT !.ok = FALSE, !.bad = parts]
  ELSE [acc EXCEPT
          !.student_ids = {parts[2]},
          !.labs_touched = IF parts[Len(parts)] \in ALLOWED_LABS
                           THEN @ \cup {parts[Len(parts)]} ELSE @]

scan_step(parts, acc) ==
  IF Len(parts) < 3 \/ parts[1] # "submissions"
  THEN [acc EXCEPT !.ok = FALSE, !.bad = parts]
  ELSE [acc EXCEPT
          !.student_ids = @ \cup {parts[2]},
          !.labs_touched = IF parts[Len(parts)] \in ALLOWED_LABS
                           THEN @ \cup {parts[Len(parts)]} ELSE @]

\* for p in changed: ..., left at the first refused path
RECURSIVE scan_paths(_, _)
scan_paths(paths, acc) ==
  IF paths = <<>> THEN acc
  ELSE LET next == scan_step(Head(paths), acc)
       IN  IF next.ok THEN scan_paths(Tail(paths), next) ELSE next

\* steps 1 to 3 of main and the checks up to the two lines that announce
\* the participant and the labs: the verdict, what is printed, and the
\* participant and units found
classification(paths, student_dir_exists) ==
  LET f    == forbidden(paths)
      o    == outside(paths)
      scan == scan_paths(paths, [ok |-> TRUE, bad |-> <<>>,
                                 student_ids |-> {}, labs_touched |-> {}])
      sid  == CHOOSE x \in scan.student_ids : TRUE
      refuse(tag, detail) ==
        [verdict |-> tag, printed |-> << <<tag, detail>> >>,
         student_id |-> "", labs_touched |-> {}]
  IN  IF f # <<>> THEN refuse("forbidden changes", f)
      ELSE IF o # <<>> THEN refuse("outside submissions", o)
      ELSE IF ~scan.ok THEN refuse("invalid path", scan.bad)
      ELSE IF Cardinality(scan.student_ids) # 1
           THEN refuse("multiple student folders", scan.student_ids)
      ELSE IF is_valid_student_id(chars(sid)) = "ValueError"
           THEN refuse("Traceback", "ValueError")
      ELSE IF is_valid_student_id(chars(sid)) = "False"
           THEN refuse("invalid student id", sid)
      ELSE IF ~student_dir_exists THEN refuse("student folder missing", sid)
      ELSE IF scan.labs_touched = {} THEN refuse("no lab file", ALLOWED_LABS)
      ELSE IF scan.labs_touched \ DOMAIN LAB_DEADLINES # {}
           THEN refuse("missing deadline config",
                       scan.labs_touched \ DOMAIN LAB_DEADLINES)
      ELSE [verdict |-> "accepted",
            printed |-> << <<"student", sid>>,
                           <<"labs changed", sorted_labs(scan.labs_touched)>> >>,
            student_id |-> sid, labs_touched |-> scan.labs_touched]

\* p.returncode != 0
suite_failed_above_one(status) == status > 1

suite_failed(status) == status # 0

\* write_header = not GRADEBOOK_PATH.exists()
write_header_always(file) == TRUE

write_header(file) == file = None

HEADER == <<"student_id", "lab", "final_score", "max_points", "submitted_at">>

\* the rows of one run, one per touched unit in sorted order
gradebook_rows(sid, labs, final_score, max_points, submitted_at) ==
  [i \in 1..Len(labs) |->
     <<sid, labs[i], ToString(final_score), ToString(max_points),
       IF submitted_at # None THEN isoformat(submitted_at) ELSE "">>]

\* idle values of the variables of the function-level specifications
DlIdle == [called |-> FALSE, submitted_at |-> None, deadline |-> None, result |-> 0]

LpIdle == [called |-> FALSE, resubmission |-> FALSE, earned |-> 0,
           labs_touched |-> {}, utc |-> 0, submitted_at |-> None,
           final_score |-> 0, messages |-> <<>>]

IdcIdle == [called |-> FALSE, student_id |-> <<>>, result |-> "False"]

NoScores == [earned |-> 0, max_points |-> 0, final_score |-> 0,
             submitted_at |-> None]

MainIdle ==
  /\ pc = "start"
  /\ changed = <<>>
  /\ student_id = ""
  /\ labs_touched = {}
  /\ out = <<>>
  /\ exit_code = 0
  /\ pytest_invoked = FALSE
  /\ returncode = 0
  /\ policy_applied = FALSE
  /\ scores = NoScores
  /\ gradebook = None
  /\ gradebook0 = None
  /\ runs = 1

fnvars == <<dl, lp, idc>>

\* the run ends: sys.exit(code), or a return from main (code 0)
Exit(code, printed) ==
  /\ pc' = "exited"
  /\ exit_code' = code
  /\ out' = out \o printed

\* base_ref, get_changed_files and the empty change set
GetChanged ==
  /\ pc = "start"
  /\ \E fetch \in GitStatuses, diff \in GitStatuses, files \in ChangedLists :
       IF fetch # 0
       THEN Exit(fetch, << <<"Command failed", "git fetch">> >>)
            /\ UNCHANGED changed
       ELSE IF diff # 0
       THEN Exit(diff, << <<"Command failed", "git diff">> >>)
            /\ UNCHANGED changed
       ELSE IF files = <<>>
       THEN Exit(0, << <<"No changes detected">> >>) /\ changed' = files
       ELSE /\ pc' = "classify"
            /\ changed' = files
            /\ UNCHANGED <<out, exit_code>>
  /\ UNCHANGED <<student_id, labs_touched, pytest_invoked, returncode,
                 policy_applied, scores, gradebook, gradebook0, runs, fnvars>>

\* steps 1 to 3 and the checks before the tests
Classify ==
  /\ pc = "classify"
  /\ \E student_dir_exists \in BOOLEAN :
       LET c == classification(changed, student_dir_exists)
       IN  IF c.verdict = "accepted"
           THEN /\ pc' = "tests"
                /\ out' = out \o c.printed
                /\ student_id' = c.student_id
                /\ labs_touched' = c.labs_touched
                /\ UNCHANGED exit_code
           ELSE /\ Exit(1, c.printed)
                /\ UNCHANGED <<student_id, labs_touched>>
  /\ UNCHANGED <<changed, pytest_invoked, returncode, policy_applied, scores,
                 gradebook, gradebook0, runs, fnvars>>

\* steps 4 and 5: pytest on the tests of the touched labs
RunTests ==
  /\ pc = "tests"
  /\ \E status \in PytestStatuses :
       /\ pytest_invoked' = TRUE
       /\ returncode' = status
       /\ IF suite_failed(status)
          THEN Exit(status, <<>>)
          ELSE pc' = "results" /\ UNCHANGED <<out, exit_code>>
  /\ UNCHANGED <<changed, student_id, labs_touched, policy_applied, scores,
                 gradebook, gradebook0, runs, fnvars>>

\* the results artifact is read
ReadResults ==
  /\ pc = "results"
  /\ \E exists \in BOOLEAN, results \in ResultsFiles :
       IF ~exists
       THEN Exit(1, << <<"results file missing", student_id>> >>)
            /\ UNCHANGED scores
       ELSE /\ scores' = [scores EXCEPT
                            !.earned = get(results, "earned", 0),
                            !.max_points = get(results, "max", 0)]
            /\ pc' = "policy"
            /\ UNCHANGED <<out, exit_code>>
  /\ UNCHANGED <<changed, student_id, labs_touched, pytest_invoked, returncode,
                 policy_applied, gradebook, gradebook0, runs, fnvars>>

\* step 6: the timestamp, the policy and the report
ApplyPolicy ==
  /\ pc = "policy"
  /\ \E event \in Events :
       LET submitted_at == get_pr_updated_time(event)
           r == apply_late_policy(scores.earned, labs_touched, submitted_at)
       IN  /\ scores' = [scores EXCEPT !.submitted_at = submitted_at,
                                       !.final_score = r.final_score]
           /\ out' = out
                \o (IF submitted_at # None
                    THEN << <<"submitted", isoformat(submitted_at)>> >>
                    ELSE <<>>)
                \o [i \in 1..Len(r.messages) |-> <<"late", r.messages[i]>>]
                \o << <<"final score", r.final_score, scores.max_points>> >>
  /\ policy_applied' = TRUE
  /\ pc' = "gradebook"
  /\ UNCHANGED <<changed, student_id, labs_touched, exit_code, pytest_invoked,
                 returncode, gradebook, gradebook0, runs, fnvars>>

\* the gradebook is opened for appending and the rows are written
WriteGradebook ==
  /\ pc = "gradebook"
  /\ LET rows == gradebook_rows(student_id, sorted_labs(labs_touched),
                                scores.final_score, scores.max_points,
                                scores.submitted_at)
     IN  gradebook' = IF write_header(gradebook)
                      THEN <<HEADER>> \o rows
                      ELSE gradebook \o rows
  /\ Exit(0, <<>>)
  /\ UNCHANGED <<changed, student_id, labs_touched, pytest_invoked, returncode,
                 policy_applied, scores, gradebook0, runs, fnvars>>

\* the next run: a new process, the gradebook file as the last run left it
NextRun ==
  /\ pc = "exited"
  /\ runs < MaxRuns
  /\ pc' = "start"
  /\ changed' = <<>>
  /\ student_id' = ""
  /\ labs_touched' = {}
  /\ out' = <<>>
  /\ exit_code' = 0
  /\ pytest_invoked' = FALSE
  /\ returncode' = 0
  /\ policy_applied' = FALSE
  /\ scores' = NoScores
  /\ gradebook0' = gradebook
  /\ runs' = runs + 1
  /\ UNCHANGED <<gradebook, fnvars>>

Init ==
  /\ MainIdle
  /\ dl = DlIdle
  /\ lp = LpIdle
  /\ idc = IdcIdle

Next ==
  \/ GetChanged
  \/ Classify
  \/ RunTests
  \/ ReadResults
  \/ ApplyPolicy
  \/ WriteGradebook
  \/ NextRun

Spec == Init /\ [][Next]_vars

(***************************************************************************)
(* The clock on its own: days_late applied to a sampled pair of datetimes. *)
(***************************************************************************)
DaysInit ==
  /\ \E lab \in ALLOWED_LABS, u \in Instants :
       dl = [DlIdle EXCEPT !.submitted_at = astimezone(u),
                           !.deadline = parse_deadline(LAB_DEADLINES[lab])]
  /\ lp = LpIdle
  /\ idc = IdcIdle
  /\ MainIdle

DaysLateCall ==
  /\ ~dl.called
  /\ dl' = [dl EXCEPT !.called = TRUE,
                      !.result = days_late(dl.submitted_at, dl.deadline)]
  /\ UNCHANGED <<mainvars, lp, idc>>

DaysNext == DaysLateCall

SpecDays == DaysInit /\ [][DaysNext]_vars

(***************************************************************************)
(* The policy on its own: apply_late_policy applied to a sampled earned    *)
(* score and set of touched units, without a timestamp, at an instant, and *)
(* again at a later instant.                                               *)
(***************************************************************************)
PolicyInit ==
  /\ \E e \in EarnedValues, L \in TouchedSets :
       lp = [LpIdle EXCEPT !.earned = e, !.labs_touched = L]
  /\ dl = DlIdle
  /\ idc = IdcIdle
  /\ MainIdle

PolicyResult(u, submitted_at, again) ==
  LET r == apply_late_policy(lp.earned, lp.labs_touched, submitted_at)
  IN  lp' = [lp EXCEPT !.called = TRUE, !.resubmission = again, !.utc = u,
                       !.submitted_at = submitted_at,
                       !.final_score = r.final_score,
                       !.messages = r.messages]

PolicyNoTimestamp ==
  /\ ~lp.called
  /\ PolicyResult(0, None, FALSE)
  /\ UNCHANGED <<mainvars, dl, idc>>

PolicyFirst ==
  /\ ~lp.called
  /\ \E u \in Instants : PolicyResult(u, astimezone(u), FALSE)
  /\ UNCHANGED <<mainvars, dl, idc>>

PolicyLater ==
  /\ lp.called
  /\ ~lp.resubmission
  /\ lp.submitted_at # None
  /\ \E u \in Instants : u >= lp.utc /\ PolicyResult(u, astimezone(u), TRUE)
  /\ UNCHANGED <<mainvars, dl, idc>>

PolicyNext == PolicyNoTimestamp \/ PolicyFirst \/ PolicyLater

SpecPolicy == PolicyInit /\ [][PolicyNext]_vars

(***************************************************************************)
(* The validator on its own.                                               *)
(***************************************************************************)
IdInit ==
  /\ \E s \in SampledIds : idc = [IdcIdle EXCEPT !.student_id = s]
  /\ dl = DlIdle
  /\ lp = LpIdle
  /\ MainIdle

IdCall ==
  /\ ~idc.called
  /\ idc' = [idc EXCEPT !.called = TRUE,
                        !.result = is_valid_student_id(idc.student_id)]
  /\ UNCHANGED <<mainvars, dl, lp>>

IdNext == IdCall

SpecId == IdInit /\ [][IdNext]_vars
(***************************************************************************)
(* Properties of the clock, the policy and the validator.                  *)
(***************************************************************************)
\* the wall-clock seconds from the deadline to the submission
Elapsed == dl.submitted_at.wall - dl.deadline.wall

\* a number of seconds rounded up to whole days
CeilDays(e) == (e + SecondsPerDay - 1) \div SecondsPerDay

\* C2, as stated: days_late is 0 up to the deadline and otherwise the time
\* past the deadline rounded up to whole days, a whole number of days
\* included.
C2_DaysLateIsCeiling ==
  dl.called =>
    dl.result = IF Elapsed <= 0 THEN 0 ELSE CeilDays(Elapsed)

\* C2, amended: days_late is 0 up to the deadline and otherwise the whole
\* days of the time past the deadline plus one: the time rounded up when it
\* is no whole number of days, and one day more than the time when it is.
C2_DaysLateIsFloorPlusOne ==
  dl.called =>
    /\ Elapsed <= 0 => dl.result = 0
    /\ (Elapsed > 0 /\ Elapsed % SecondsPerDay # 0) =>
         dl.result = CeilDays(Elapsed)
    /\ (Elapsed > 0 /\ Elapsed % SecondsPerDay = 0) =>
         dl.result = CeilDays(Elapsed) + 1

\* a submission exactly three days past its deadline, counted as four
C2_Witness ==
  /\ dl.called
  /\ Elapsed = 3 * SecondsPerDay
  /\ dl.result = 4

\* the deduction the policy charges one unit for a lateness
UnitDeduction(lateness) ==
  IF lateness = 0 THEN 0 ELSE IF lateness <= 7 THEN lateness ELSE 20

\* the lateness of a unit at a submission
Lateness(lab, submitted_at) ==
  days_late(submitted_at, parse_deadline(LAB_DEADLINES[lab]))

RECURSIVE TotalDeduction(_, _)
TotalDeduction(labs, submitted_at) ==
  IF labs = {} THEN 0
  ELSE LET lab == CHOOSE l \in labs : TRUE
       IN  UnitDeduction(Lateness(lab, submitted_at))
             + TotalDeduction(labs \ {lab}, submitted_at)

\* C1: apply_late_policy returns max(0, earned - D), D the sum over the
\* touched units of 0 (on time), the lateness (1 to 7 days) or 20 (more than
\* 7 days); without a submission instant it returns the earned score.
C1_FinalScoreFormula ==
  lp.called =>
    IF lp.submitted_at = None
    THEN /\ lp.final_score = lp.earned
         /\ lp.messages = << <<"no timestamp">> >>
    ELSE lp.final_score =
           Max(0, lp.earned - TotalDeduction(lp.labs_touched, lp.submitted_at))

\* two touched units, one a few days late and one forfeited, and a final
\* score strictly between 0 and the earned score
C1_Witness ==
  /\ lp.called
  /\ lp.submitted_at # None
  /\ \E a, b \in lp.labs_touched :
       /\ Lateness(a, lp.submitted_at) \in 1..7
       /\ Lateness(b, lp.submitted_at) > 7
  /\ lp.final_score > 0
  /\ lp.final_score < lp.earned

\* C3: for a fixed earned score and set of touched units, a later
\* submission instant never gives a higher final score.
C3_FinalScoreNonIncreasing ==
  [][(/\ lp.called /\ lp'.called
      /\ lp.submitted_at # None /\ lp'.submitted_at # None
      /\ lp'.earned = lp.earned /\ lp'.labs_touched = lp.labs_touched
      /\ lp'.utc >= lp.utc)
     => lp'.final_score <= lp.final_score]_vars

\* a resubmission that crossed the 7-day line and lost the unit
C3_Witness ==
  /\ lp.called
  /\ lp.resubmission
  /\ lp.labs_touched = {"lab01.py"}
  /\ lp.earned = 18
  /\ lp.final_score = 0

\* the value of three decimal digits
DecimalValue(s) ==
  100 * DigitValue(s[1]) + 10 * DigitValue(s[2]) + DigitValue(s[3])

DecimalDigits == AsciiDigits \cup OtherDecimalDigits

\* C10: an identifier with the prefix and of the prefix's length plus 3 is
\* valid iff its last three characters are decimal digits with a value in
\* [MIN_ID, MAX_ID]; one failing the prefix or the length rule is invalid.
C10_ValidIffSuffixInRange ==
  idc.called =>
    LET s == idc.student_id
    IN  IF startswith(s, ID_PREFIX) /\ Len(s) = 11
        THEN idc.result = "True" <=>
               /\ \A i \in 9..11 : s[i] \in DecimalDigits
               /\ DecimalValue(SubSeq(s, 9, 11)) \in 0..44
        ELSE idc.result = "False"

\* the largest valid identifier, found valid
C10_Witness ==
  /\ idc.called
  /\ idc.student_id = ID_PREFIX \o <<"0", "4", "4">>
  /\ idc.result = "True"
(***************************************************************************)
(* Properties of the grading run.                                          *)
(***************************************************************************)
\* the run has classified a nonempty change set
Classified == pc \notin {"start", "classify"} /\ changed # <<>>

\* the first thing the run printed
FirstPrinted == out[1][1]

\* the run was refused with the given message
RefusedAs(tag) ==
  /\ pc = "exited"
  /\ exit_code # 0
  /\ ~pytest_invoked
  /\ out # <<>>
  /\ FirstPrinted = tag

Paths == {changed[i] : i \in 1..Len(changed)}

InProtectedArea(p) == Len(p) >= 2 /\ p[1] \in {"autograder", ".github"}

InSubmissions(p) == Len(p) >= 2 /\ p[1] = "submissions"

\* the participant folders the change set touches
Folders == {p[2] : p \in {q \in Paths : InSubmissions(q) /\ Len(q) >= 3}}

\* C4, as stated: a change set with a path outside the submissions area is
\* refused as out of the submission zone, whatever else it holds.
C4_OutsideAlwaysOutOfZone ==
  (Classified /\ \E p \in Paths : ~InSubmissions(p))
    => RefusedAs("outside submissions")

\* C4, amended: a change set with a path outside the submissions area and
\* no path under autograder/ or .github/ is refused as out of the submission
\* zone, whatever else it holds; with a path under autograder/ or .github/
\* it is refused as a forbidden change.
C4_OutsideOutOfZoneUnlessProtected ==
  (Classified /\ \E p \in Paths : ~InSubmissions(p))
    => IF \E p \in Paths : InProtectedArea(p)
       THEN RefusedAs("forbidden changes")
       ELSE RefusedAs("outside submissions")

\* a lab file of a valid participant together with a file outside the
\* submissions area, refused as out of zone
C4_Witness ==
  /\ RefusedAs("outside submissions")
  /\ <<"README.md">> \in Paths
  /\ <<"submissions", "PY102001001", "lab01.py">> \in Paths

\* C5, as stated: a change set touching two or more participant folders is
\* refused as multiple participants, whatever else it holds.
C5_TwoFoldersAlwaysMultiple ==
  (Classified /\ Cardinality(Folders) >= 2)
    => RefusedAs("multiple student folders")

\* C5, amended: a change set touching two or more participant folders, all
\* of whose paths are under submissions/ and have at least three segments,
\* is refused as multiple participants.
C5_TwoFoldersMultipleIfWellFormed ==
  (/\ Classified
   /\ Cardinality(Folders) >= 2
   /\ \A p \in Paths : InSubmissions(p) /\ Len(p) >= 3)
    => RefusedAs("multiple student folders")

\* three paths in the folders of two participants, refused
C5_Witness ==
  /\ RefusedAs("multiple student folders")
  /\ Len(changed) = 3
  /\ Cardinality(Folders) = 2

\* the folder name is the prefix and three decimal digits from 000 to 044
ValidFolder(name) ==
  LET s == chars(name)
  IN  /\ Len(s) = 11
      /\ SubSeq(s, 1, 8) = ID_PREFIX
      /\ \A i \in 9..11 : s[i] \in DecimalDigits
      /\ DecimalValue(SubSeq(s, 9, 11)) \in 0..44

\* C6: the check suite runs only for a change set that passed every policy
\* check, and a change set with a path under autograder/ or .github/ ends
\* with a nonzero status and without the check suite having run.
C6_SuiteOnlyAfterPolicyChecks ==
  /\ pytest_invoked =>
       /\ \A p \in Paths : ~InProtectedArea(p) /\ InSubmissions(p) /\ Len(p) >= 3
       /\ Cardinality(Folders) = 1
       /\ \A f \in Folders : ValidFolder(f)
       /\ \E p \in Paths : p[Len(p)] \in ALLOWED_LABS
  /\ (Classified /\ \E p \in Paths : InProtectedArea(p)) =>
       (pc = "exited" /\ exit_code # 0 /\ ~pytest_invoked)

\* a lab file of a valid participant together with a change to the grader,
\* ended with status 1 and no test run
C6_Witness ==
  /\ pc = "exited"
  /\ <<"autograder", "grade.py">> \in Paths
  /\ <<"submissions", "PY102001001", "lab01.py">> \in Paths
  /\ exit_code = 1
  /\ ~pytest_invoked

\* C7: when the check suite returns a nonzero status the run ends at once
\* with that status: the policy is not applied and the gradebook is as the
\* run found it.
C7_SuiteFailureEndsRun ==
  (pytest_invoked /\ returncode # 0) =>
    /\ pc = "exited"
    /\ exit_code = returncode
    /\ ~policy_applied
    /\ gradebook = gradebook0

\* the suite returned 2 in a run that found a gradebook written earlier
C7_Witness ==
  /\ pytest_invoked
  /\ returncode = 2
  /\ pc = "exited"
  /\ exit_code = 2
  /\ gradebook0 # None

\* the run has written the gradebook
Wrote == pc = "exited" /\ policy_applied

\* the rows of a gradebook file, none when there is no file
RowsOf(file) == IF file = None THEN <<>> ELSE file

\* C8: a run that writes the gradebook appends one row per touched unit,
\* writes the header iff there was no file, and leaves the earlier rows as
\* they were; the file, once there, has one header, its first row.
C8_GradebookAppendOnly ==
  /\ Wrote =>
       LET old   == RowsOf(gradebook0)
           added == SubSeq(gradebook, Len(old) + 1, Len(gradebook))
           data  == SelectSeq(added, LAMBDA r : r # HEADER)
       IN  /\ Len(gradebook) >= Len(old)
           /\ SubSeq(gradebook, 1, Len(old)) = old
           /\ Len(data) = Cardinality(labs_touched)
           /\ {data[i][2] : i \in 1..Len(data)} = labs_touched
           /\ \A i \in 1..Len(data) : data[i][1] = student_id
           /\ (gradebook0 = None) <=> (Len(added) = Len(data) + 1)
           /\ (gradebook0 # None) <=> (Len(added) = Len(data))
  /\ ~Wrote => gradebook = gradebook0
  /\ gradebook # None =>
       /\ gradebook[1] = HEADER
       /\ \A i \in 2..Len(gradebook) : gradebook[i] # HEADER

\* a second run that added two rows under the header of the first
C8_Witness ==
  /\ Wrote
  /\ gradebook0 # None
  /\ Cardinality(labs_touched) = 2
  /\ Len(gradebook) = Len(gradebook0) + 2

\* the messages that report a failure
Diagnostics ==
  {"Command failed", "forbidden changes", "outside submissions",
   "invalid path", "multiple student folders", "invalid student id",
   "Traceback", "student folder missing", "no lab file",
   "missing deadline config", "results file missing"}

\* C9: a run that ends with a nonzero status has printed a diagnostic.
C9_NonzeroExitPrintsDiagnostic ==
  (pc = "exited" /\ exit_code # 0) =>
    \E i \in 1..Len(out) : out[i][1] \in Diagnostics
====
